---------------------------- MODULE Spec2Model ----------------------------
(***************************************************************************)
(* DocFlow authentication flow controller.                                 *)
(*                                                                         *)
(* EmailLoginPage (src/src/app/auth/email/page.tsx:33-328): the e-mail     *)
(* one-time-code login form with its resend cooldown.                      *)
(* CallbackContent (same file, 339-573): the OAuth callback page with its  *)
(* redirect resolution.                                                    *)
(*                                                                         *)
(* Scheduling: one UI thread.  A handler runs from its start to its next   *)
(* network await without interruption (form validation resolves inside the *)
(* same task), and React commits the re-render a handler's state update    *)
(* causes before the next event is dispatched, so a handler reads the      *)
(* state the previous step left.  Steps are therefore: a user event up to  *)
(* its network await, the continuation of a network call, a timer firing.  *)
(***************************************************************************)
EXTENDS Integers, Sequences, FiniteSets, TLC

\* ------------------------------------------------------------ constants
CODE_LENGTH == 6
MAX_EMAIL_LENGTH == 100
COUNTDOWN_SECONDS == 60
CREATED == 201
OK == 200

\* ------------------------------------------------------------ bounds
\* interval timer ids the runtime hands out
NumTimerIds == 3
\* requests of one kind the model lets be outstanding at once
MaxInFlight == 2
\* deferred navigations the model lets be pending at once
MaxNav == 1
\* characters the three redirect hints of one callback URL hold together
MaxQueryLen == 4
\* getRedirectUrl calls on one browser session
MaxResolveCalls == 2
\* reloads of the callback page by its retry button
MaxRetries == 1

\* ------------------------------------------------------------ form values
Digits == {"7"}
Chars == Digits \cup {"x"}

Rep(c, n) == [i \in 1..n |-> c]

\* texts typed or pasted into the code field
RawInputs ==
  { <<>>,
    Rep("7", CODE_LENGTH - 1),
    Rep("7", CODE_LENGTH),
    Rep("7", CODE_LENGTH + 1),
    Rep("x", CODE_LENGTH),
    Rep("7", CODE_LENGTH - 1) \o <<"x">>,
    <<"x">> \o Rep("7", CODE_LENGTH) }

\* An e-mail text is represented by its length and by whether it matches the
\* e-mail pattern of the schema validator.
Emails ==
  { [len |-> 0, pattern |-> FALSE],
    [len |-> 20, pattern |-> TRUE],
    [len |-> 20, pattern |-> FALSE],
    [len |-> MAX_EMAIL_LENGTH, pattern |-> TRUE],
    [len |-> MAX_EMAIL_LENGTH + 1, pattern |-> TRUE] }

NoTimer == 0
TimerIds == 1..NumTimerIds

\* What an AuthAPI call can end in: an exception, a result with `error` set, a
\* result with neither `data` nor `error`, or a result with `data` carrying
\* the server's response code.
ResponseCodes == {OK, CREATED, 400}
ApiResults ==
  { [kind |-> "throw", code |-> 0],
    [kind |-> "error", code |-> 0],
    [kind |-> "nodata", code |-> 0] }
  \cup { [kind |-> "data", code |-> c] : c \in ResponseCodes }

\* What getCurrentUser can end in: the profile, no profile, a result after the
\* onError or the unauthorized handler ran, or an exception.
ProfileOutcomes == {"data", "nodata", "onError", "unauthorized", "throw"}

VARIABLES
  \* ---- EmailLoginPage
  email,            \* form field email
  code,             \* form field code
  emailError,       \* errors.email is set
  countdown,        \* useState(0)
  isSubmitting,     \* useState(false)
  isSendingCode,    \* useState(false)
  timerRef,         \* timerRef.current: NoTimer or an interval id
  armed,            \* interval timers the runtime holds armed
  alive,            \* the page component is mounted
  sendCodeInFlight, \* sendEmailCode calls awaiting their result
  loginInFlight,    \* emailCodeLogin calls awaiting their result
  profileInFlight,  \* getCurrentUser calls awaiting their result
  sessionSaved,     \* saveAuthData has been called
  navPending,       \* setTimeout(router.push('/')) callbacks pending
  location,         \* the page the router shows
  \* ---- CallbackContent
  searchParams,     \* the callback URL's query parameters
  storageOK,        \* sessionStorage can be accessed
  stash,            \* sessionStorage 'auth_redirect'
  cbMounted,        \* useState(false), set by the mount effect
  resolved,         \* what the last getRedirectUrl call ended in
  resolveCalls,     \* getRedirectUrl calls made
  stashBefore,      \* observation: the stash when the last call began
  stashReturns,     \* observation: calls that returned the stashed value
  cbPc,             \* where the page's processAuth run stands
  cbState,          \* useState('loading')
  cbStatus,         \* useState('处理中...'): which message is shown
  cbSaved,          \* the authData this run passed to saveAuthData
  exchangeCalls,    \* githubCallback calls issued since the page was opened
  cbNav,            \* the setTimeout(router.push(redirectUrl)) of this run
  classified,       \* observation: the last failure a handler classified
  retries,          \* page reloads made by the retry button
  \* ---- observation only
  ticksSinceStart,  \* timer seconds elapsed since the last startCountdown
  lastOp            \* the operation that made the last step, and its branch

emailVars ==
  <<email, code, emailError, countdown, isSubmitting, isSendingCode, timerRef,
    armed, alive, sendCodeInFlight, loginInFlight, profileInFlight,
    sessionSaved, navPending, location, ticksSinceStart>>

\* the processAuth run of the callback page
cbFlowVars ==
  <<cbPc, cbState, cbStatus, cbSaved, exchangeCalls, cbNav, classified, retries>>

cbVars ==
  <<searchParams, storageOK, stash, cbMounted, resolved, resolveCalls, stashBefore,
    stashReturns, cbFlowVars>>

vars == <<emailVars, cbVars, lastOp>>

\* ------------------------------------------------------------ schema
\* emailLoginSchema.email: min(1), email(), max(100)
EmailValid(e) == e.len >= 1 /\ e.pattern /\ e.len <= MAX_EMAIL_LENGTH

AllDigits(s) == \A i \in 1..Len(s) : s[i] \in Digits

\* mutant: the length(CODE_LENGTH) rule is missing
CodeValid_noLength(s) == Len(s) >= 1 /\ AllDigits(s)

\* emailLoginSchema.code: min(1), length(CODE_LENGTH), regex ^\d+$
CodeValid(s) == Len(s) >= 1 /\ Len(s) = CODE_LENGTH /\ AllDigits(s)

SchemaValid(e, s) == EmailValid(e) /\ CodeValid(s)

\* value.replace(/\D/g, '').slice(0, CODE_LENGTH)
FilterCode(raw) ==
  LET digitsOnly == SelectSeq(raw, LAMBDA c : c \in Digits)
  IN SubSeq(digitsOnly, 1, IF Len(digitsOnly) < CODE_LENGTH THEN Len(digitsOnly) ELSE CODE_LENGTH)

\* ------------------------------------------------------------ throttle
\* The throttle's state as one record: [countdown, timerRef, armed].
Throttle == [countdown |-> countdown, timerRef |-> timerRef, armed |-> armed]

clearTimer(t) ==
  IF t.timerRef # NoTimer
  THEN [t EXCEPT !.armed = @ \ {t.timerRef}, !.timerRef = NoTimer]
  ELSE t

\* setCountdown on a component that is no longer mounted changes nothing.
setCountdown(t, live, v) == IF live THEN [t EXCEPT !.countdown = v] ELSE t

Min(S) == CHOOSE x \in S : \A y \in S : x <= y

\* setInterval(callback, 1000): a fresh id, armed
setInterval(t) ==
  LET id == Min(TimerIds \ t.armed)
  IN [t EXCEPT !.timerRef = id, !.armed = @ \cup {id}]

\* mutant: the previous timer is not cleared
startCountdown_noClear(t, live) ==
  setInterval(setCountdown(t, live, COUNTDOWN_SECONDS))

startCountdown(t, live) ==
  setInterval(setCountdown(clearTimer(t), live, COUNTDOWN_SECONDS))

\* mutant: the countdown ends one second early (prev <= 2)
intervalCallback_early(t, live) ==
  IF ~live THEN t
  ELSE IF t.countdown <= 2
       THEN setCountdown(clearTimer(t), live, 0)
       ELSE setCountdown(t, live, t.countdown - 1)

\* the interval callback: setCountdown(prev => ...)
intervalCallback(t, live) ==
  IF ~live THEN t
  ELSE IF t.countdown <= 1
       THEN setCountdown(clearTimer(t), live, 0)
       ELSE setCountdown(t, live, t.countdown - 1)

\* One second elapses: every interval timer still armed when its turn comes
\* runs its callback once, in the order the timers were created.
RECURSIVE fireAll(_, _, _)
fireAll(ids, t, live) ==
  IF ids = {} THEN t
  ELSE LET id == Min(ids)
           next == IF id \in t.armed THEN intervalCallback(t, live) ELSE t
       IN fireAll(ids \ {id}, next, live)

SetThrottle(t) ==
  /\ countdown' = t.countdown
  /\ timerRef' = t.timerRef
  /\ armed' = t.armed

\* ticksSinceStart: NeverStarted until the first startCountdown, then the
\* seconds since the last one, saturating at COUNTDOWN_SECONDS.
NeverStarted == 0 - 1
Bump(n) == IF n = NeverStarted \/ n >= COUNTDOWN_SECONDS THEN n ELSE n + 1

\* ------------------------------------------------------------ derived UI
isSendCodeDisabled ==
  email.len = 0 \/ emailError \/ isSendingCode \/ countdown > 0

\* ------------------------------------------------------------ callback URL
\* A query parameter: searchParams.get(name) is null when it is not present.
Absent == [present |-> FALSE, val |-> <<>>]
Str(v) == [present |-> TRUE, val |-> v]
\* JavaScript truthiness of string | null
Truthy(p) == p.present /\ p.val # <<>>

ParamChars == {"%", "2", "F"}

RECURSIVE StringsOfLen(_)
StringsOfLen(n) ==
  IF n = 0 THEN {<<>>}
  ELSE {Append(s, c) : s \in StringsOfLen(n - 1), c \in ParamChars}

ParamValues(budget) ==
  {Absent} \cup {Str(v) : v \in UNION {StringsOfLen(n) : n \in 0..budget}}

Root == <<"/">>
StashValues == {Absent, Str(<<>>), Str(<<"/", "s">>)}

\* ---- decodeURIComponent
HexDigits == {"0", "1", "2", "3", "4", "5", "6", "7", "8", "9",
              "A", "B", "C", "D", "E", "F", "a", "b", "c", "d", "e", "f"}
HexVal(c) ==
  CASE c = "0" -> 0 [] c = "1" -> 1 [] c = "2" -> 2 [] c = "3" -> 3
    [] c = "4" -> 4 [] c = "5" -> 5 [] c = "6" -> 6 [] c = "7" -> 7
    [] c = "8" -> 8 [] c = "9" -> 9
    [] c \in {"A", "a"} -> 10 [] c \in {"B", "b"} -> 11
    [] c \in {"C", "c"} -> 12 [] c \in {"D", "d"} -> 13
    [] c \in {"E", "e"} -> 14 [] c \in {"F", "f"} -> 15

\* the characters of the escapes the model's alphabet can spell
AsciiChar(b) ==
  CASE b = 34 -> "\""
    [] b = 47 -> "/"
    [] OTHER -> "?"

IsEscape(s, k) ==
  /\ k + 2 <= Len(s)
  /\ s[k] = "%"
  /\ s[k + 1] \in HexDigits
  /\ s[k + 2] \in HexDigits

ByteAt(s, k) == 16 * HexVal(s[k + 1]) + HexVal(s[k + 2])

\* how many bytes the UTF-8 sequence a lead byte opens has; 0: no lead byte
Utf8Length(b) ==
  IF b < 128 THEN 1
  ELSE IF b >= 192 /\ b < 224 THEN 2
  ELSE IF b >= 224 /\ b < 240 THEN 3
  ELSE IF b >= 240 /\ b < 248 THEN 4
  ELSE 0

\* the n - 1 escapes after position k are continuation bytes (10xxxxxx)
Continued(s, k, n) ==
  \A i \in 1..(n - 1) :
    /\ IsEscape(s, k + 3 * i)
    /\ ByteAt(s, k + 3 * i) >= 128
    /\ ByteAt(s, k + 3 * i) < 192

Failed == [ok |-> FALSE, out |-> <<>>]

\* decodeURIComponent(s) from position k on: a plain character is copied, an
\* escape is decoded, a malformed escape or UTF-8 sequence is a URIError
RECURSIVE DecodeFrom(_, _, _)
DecodeFrom(s, k, acc) ==
  IF k > Len(s) THEN [ok |-> TRUE, out |-> acc]
  ELSE IF s[k] # "%" THEN DecodeFrom(s, k + 1, Append(acc, s[k]))
  ELSE IF ~IsEscape(s, k) THEN Failed
  ELSE LET b == ByteAt(s, k)
           n == Utf8Length(b)
       IN IF n = 0 THEN Failed
          ELSE IF n = 1 THEN DecodeFrom(s, k + 3, Append(acc, AsciiChar(b)))
          ELSE IF ~Continued(s, k, n) THEN Failed
          ELSE DecodeFrom(s, k + 3 * n, Append(acc, "U"))

decodeURIComponent(s) == DecodeFrom(s, 1, <<>>)

\* ---- getRedirectUrl
Returned(url, st) == [kind |-> "url", url |-> url, stash |-> st]
Thrown(st) == [kind |-> "throw", url |-> <<>>, stash |-> st]
NoResult == [kind |-> "none", url |-> <<>>, stash |-> Absent]

\* mutant: returnTo is looked at before redirect_to
redirectToParam_swapped(sp) == IF Truthy(sp.returnTo) THEN sp.returnTo ELSE sp.redirect_to

\* searchParams?.get('redirect_to') || searchParams?.get('returnTo')
redirectToParam(sp) == IF Truthy(sp.redirect_to) THEN sp.redirect_to ELSE sp.returnTo

\* mutant: the stashed value is not removed
fromStorage_keeps(mounted, canRead, st) ==
  IF mounted /\ canRead /\ Truthy(st)
  THEN Returned(st.val, st)
  ELSE Returned(Root, st)

\* the sessionStorage block: a storage error is caught and ignored
fromStorage(mounted, canRead, st) ==
  IF mounted /\ canRead /\ Truthy(st)
  THEN Returned(st.val, Absent)
  ELSE Returned(Root, st)

\* mutant: the stash is consulted, and used up, before the query parameters
getRedirectUrl_stashFirst(sp, mounted, canRead, st) ==
  IF mounted /\ canRead /\ Truthy(st)
  THEN Returned(st.val, Absent)
  ELSE IF Truthy(sp.state) /\ decodeURIComponent(sp.state.val).ok
  THEN Returned(decodeURIComponent(sp.state.val).out, st)
  ELSE IF Truthy(redirectToParam(sp))
  THEN IF decodeURIComponent(redirectToParam(sp).val).ok
       THEN Returned(decodeURIComponent(redirectToParam(sp).val).out, st)
       ELSE Thrown(st)
  ELSE Returned(Root, st)

getRedirectUrl(sp, mounted, canRead, st) ==
  IF Truthy(sp.state) /\ decodeURIComponent(sp.state.val).ok
  THEN Returned(decodeURIComponent(sp.state.val).out, st)
  ELSE LET redirectTo == redirectToParam(sp)
       IN IF Truthy(redirectTo)
          THEN IF decodeURIComponent(redirectTo.val).ok
               THEN Returned(decodeURIComponent(redirectTo.val).out, st)
               ELSE Thrown(st)
          ELSE fromStorage(mounted, canRead, st)

\* a callback URL without any parameter
NoHints ==
  [ isNull |-> FALSE,
    token |-> Absent, refresh_token |-> Absent,
    expires_in |-> Absent, refresh_expires_in |-> Absent,
    code |-> Absent,
    state |-> Absent, redirect_to |-> Absent, returnTo |-> Absent ]

\* ------------------------------------------------------------ callback flow
\* ---- parseInt(string), no radix given
Num(n) == [t |-> "num", n |-> n]
NaN == [t |-> "NaN", n |-> 0]
Undefined == [t |-> "undefined", n |-> 0]

DecimalDigits == {"0", "1", "2", "3", "4", "5", "6", "7", "8", "9"}

\* the value of the longest prefix of s[k..] made of digits of the radix, and
\* how many digits it has
RECURSIVE DigitsFrom(_, _, _, _, _)
DigitsFrom(s, k, radix, acc, n) ==
  IF k <= Len(s)
     /\ s[k] \in (IF radix = 16 THEN HexDigits ELSE DecimalDigits)
  THEN DigitsFrom(s, k + 1, radix, acc * radix + HexVal(s[k]), n + 1)
  ELSE [value |-> acc, count |-> n]

RECURSIVE SkipBlanks(_, _)
SkipBlanks(s, k) == IF k <= Len(s) /\ s[k] = " " THEN SkipBlanks(s, k + 1) ELSE k

parseInt(s) ==
  LET b == SkipBlanks(s, 1)
      signed == b <= Len(s) /\ s[b] \in {"-", "+"}
      negative == signed /\ s[b] = "-"
      d == IF signed THEN b + 1 ELSE b
      hex == d + 1 <= Len(s) /\ s[d] = "0" /\ s[d + 1] \in {"x", "X"}
      r == IF hex THEN DigitsFrom(s, d + 2, 16, 0, 0) ELSE DigitsFrom(s, d, 10, 0, 0)
  IN IF r.count = 0 THEN NaN
     ELSE Num(IF negative THEN 0 - r.value ELSE r.value)

\* ---- the call's authData
AuthData(token, refresh, expires, refreshExpires) ==
  [ token |-> token, refresh_token |-> refresh, expires_in |-> expires,
    refresh_expires_in |-> refreshExpires, success |-> TRUE ]

\* searchParams.get(name) ? parseInt(searchParams.get(name)!) : undefined
optionalInt(p) == IF Truthy(p) THEN parseInt(p.val) ELSE Undefined

\* searchParams.get('refresh_token') || undefined
optionalString(p) == IF Truthy(p) THEN p ELSE Absent

authDataFromParams(sp) ==
  AuthData(sp.token, optionalString(sp.refresh_token), optionalInt(sp.expires_in),
           optionalInt(sp.refresh_expires_in))

\* data.data of a githubCallback response with code 200
ServerAuthData == AuthData(Str(<<"s">>), Str(<<"r">>), Num(36), Num(72))

NoSession == [saved |-> FALSE, data |-> AuthData(Absent, Absent, Undefined, Undefined)]

\* mutant: saveAuthData is not called
saveAuthData_skipped(authData) == NoSession

\* saveAuthData(authData)
saveAuthData(authData) == [saved |-> TRUE, data |-> authData]

\* ---- failures
\* What a failure's message contains, of the texts the handlers look for:
\* 'timeout', '超时' (timeout_zh), 'Network', 'Failed to fetch', '网络'
\* (network_zh).  A thrown value need not be an Error.
Err(markers) == [isError |-> TRUE, markers |-> markers]
NotAnError == [isError |-> FALSE, markers |-> {}]
NoFailure == [isError |-> FALSE, markers |-> {"none"}]

Failures ==
  { NotAnError,
    Err({}),
    Err({"timeout"}),
    Err({"timeout_zh"}),
    Err({"Network"}),
    Err({"FailedToFetch"}),
    Err({"network_zh"}),
    Err({"timeout", "Network"}),
    Err({"timeout", "FailedToFetch"}),
    Err({"timeout_zh", "network_zh"}) }

\* decodeURIComponent's URIError: 'URI malformed'
URIError == Err({})

\* the catch of processAuth: which message it shows
classifyCatch(e) ==
  IF ~e.isError THEN "unknown"
  ELSE IF "FailedToFetch" \in e.markers \/ "Network" \in e.markers THEN "network"
  ELSE IF "timeout" \in e.markers \/ "timeout_zh" \in e.markers THEN "timeout"
  ELSE "authFailed"

\* the onError handler given to githubCallback: which message it shows
classifyOnError(e, shown) ==
  IF ~e.isError THEN shown
  ELSE IF "timeout_zh" \in e.markers \/ "timeout" \in e.markers THEN "timeout"
  ELSE IF "network_zh" \in e.markers THEN "network"
  ELSE "authFailed"

NoClassified == [path |-> "none", failure |-> NoFailure, category |-> ""]
Classified(path, e, category) == [path |-> path, failure |-> e, category |-> category]

\* mutant: the exception leaves processAuth
processAuthCatch_propagates(e, shown) == shown

\* the catch of processAuth
processAuthCatch(e, shown) == [state |-> "error", status |-> classifyCatch(e)]

\* ---- what githubCallback can end in: an exception; a result with `error`
\* set, after the onError handler ran or without it, for a response with HTTP
\* status 401 or for a failure without a response; a result with `data`
\* carrying the server's response code; a result with neither.
ExchangeResults ==
  { [kind |-> "throw", http |-> 0, code |-> 0, failure |-> e] : e \in Failures }
  \cup { [kind |-> "error", http |-> 401, code |-> 0, failure |-> e] :
           e \in {NoFailure, Err({})} }
  \cup { [kind |-> "error", http |-> 0, code |-> 0, failure |-> e] : e \in Failures }
  \cup { [kind |-> "data", http |-> 200, code |-> c, failure |-> NoFailure] :
           c \in {OK, 400, 401} }
  \cup { [kind |-> "nodata", http |-> 200, code |-> 0, failure |-> NoFailure] }

NoNav == [state |-> "none", target |-> <<>>]
Scheduled(url) == [state |-> "pending", target |-> url]
Navigated(url) == [state |-> "done", target |-> url]

\* the callback page's processAuth run has not begun
CallbackFlowInit ==
  /\ cbState = "loading"
  /\ cbStatus = "processing"
  /\ cbSaved = NoSession
  /\ exchangeCalls = 0
  /\ cbNav = NoNav
  /\ classified = NoClassified
  /\ retries = 0

\* the callback page is not open
CallbackFlowIdle == cbPc = "closed" /\ CallbackFlowInit

\* ------------------------------------------------------------ Init
EmailInit ==
  /\ email = [len |-> 0, pattern |-> FALSE]
  /\ code = <<>>
  /\ emailError = FALSE
  /\ countdown = 0
  /\ isSubmitting = FALSE
  /\ isSendingCode = FALSE
  /\ timerRef = NoTimer
  /\ armed = {}
  /\ alive = TRUE
  /\ sendCodeInFlight = 0
  /\ loginInFlight = 0
  /\ profileInFlight = 0
  /\ sessionSaved = FALSE
  /\ navPending = 0
  /\ location = "/auth/email"
  /\ ticksSinceStart = NeverStarted

\* the e-mail page is not open
EmailClosed ==
  /\ email = [len |-> 0, pattern |-> FALSE]
  /\ code = <<>>
  /\ emailError = FALSE
  /\ countdown = 0
  /\ isSubmitting = FALSE
  /\ isSendingCode = FALSE
  /\ timerRef = NoTimer
  /\ armed = {}
  /\ alive = FALSE
  /\ sendCodeInFlight = 0
  /\ loginInFlight = 0
  /\ profileInFlight = 0
  /\ sessionSaved = FALSE
  /\ navPending = 0
  /\ location = "/auth/callback"
  /\ ticksSinceStart = NeverStarted

Op(name, arg, c) == [op |-> name, arg |-> arg, code |-> c]

\* the callback page is not open
CallbackIdle ==
  /\ searchParams = NoHints
  /\ storageOK = TRUE
  /\ stash = Absent
  /\ cbMounted = FALSE
  /\ resolved = NoResult
  /\ resolveCalls = 0
  /\ stashBefore = Absent
  /\ stashReturns = 0
  /\ CallbackFlowIdle

Init == EmailInit /\ CallbackIdle /\ lastOp = Op("init", "", 0)

\* ------------------------------------------------------------ form input
\* register('email'), mode 'onChange': the field is validated on each change
SetEmail(e) ==
  /\ alive
  /\ e # email
  /\ email' = e
  /\ emailError' = ~EmailValid(e)
  /\ lastOp' = Op("setEmail", "", 0)
  /\ UNCHANGED cbVars
  /\ UNCHANGED <<code, countdown, isSubmitting, isSendingCode, timerRef, armed,
                 alive, sendCodeInFlight, loginInFlight, profileInFlight,
                 sessionSaved, navPending, location, ticksSinceStart>>

handleCodeChange(raw) ==
  /\ alive
  /\ FilterCode(raw) # code
  /\ code' = FilterCode(raw)
  /\ lastOp' = Op("handleCodeChange", "", 0)
  /\ UNCHANGED cbVars
  /\ UNCHANGED <<email, emailError, countdown, isSubmitting, isSendingCode,
                 timerRef, armed, alive, sendCodeInFlight, loginInFlight,
                 profileInFlight, sessionSaved, navPending, location,
                 ticksSinceStart>>

\* ------------------------------------------------------------ code dispatch
\* mutant: the re-entry guard does not look at the countdown
sendCodeVerdict_noCooldown ==
  IF ~EmailValid(email) \/ email.len = 0 THEN "invalid"
  ELSE IF isSendingCode THEN "suppressed"
  ELSE "issued"

\* the guards of handleSendCode, in their order
sendCodeVerdict ==
  IF ~EmailValid(email) \/ email.len = 0 THEN "invalid"
  ELSE IF isSendingCode \/ countdown > 0 THEN "suppressed"
  ELSE "issued"

\* handleSendCode up to the await of authApi.sendEmailCode
handleSendCode ==
  /\ alive
  /\ sendCodeInFlight < MaxInFlight
  /\ emailError' = ~EmailValid(email)
  /\ lastOp' = Op("sendCode", sendCodeVerdict, 0)
  /\ UNCHANGED cbVars
  /\ IF sendCodeVerdict = "issued"
     THEN /\ isSendingCode' = TRUE
          /\ sendCodeInFlight' = sendCodeInFlight + 1
     ELSE UNCHANGED <<isSendingCode, sendCodeInFlight>>
  /\ UNCHANGED <<email, code, countdown, isSubmitting, timerRef, armed, alive,
                 loginInFlight, profileInFlight, sessionSaved, navPending,
                 location, ticksSinceStart>>

\* setState on a component that is no longer mounted changes nothing.
setFlag(old, live, v) == IF live THEN v ELSE old

\* mutant: any response with data starts the countdown
sendCodeStarts_anyData(r) == r.kind = "data"

\* if (error) return;  if (data && data.code === 201) startCountdown()
sendCodeStarts(r) == r.kind = "data" /\ r.code = CREATED

\* handleSendCode from the result of authApi.sendEmailCode on
sendCodeResponse(r) ==
  /\ sendCodeInFlight > 0
  /\ sendCodeInFlight' = sendCodeInFlight - 1
  /\ lastOp' = Op("sendCodeResponse", r.kind, r.code)
  /\ UNCHANGED cbVars
  /\ IF sendCodeStarts(r)
     THEN /\ SetThrottle(startCountdown(Throttle, alive))
          /\ ticksSinceStart' = 0
     ELSE UNCHANGED <<countdown, timerRef, armed, ticksSinceStart>>
  /\ isSendingCode' = IF r.kind = "throw" THEN isSendingCode
                      ELSE setFlag(isSendingCode, alive, FALSE)
  /\ UNCHANGED <<email, code, emailError, isSubmitting, alive, loginInFlight,
                 profileInFlight, sessionSaved, navPending, location>>

\* ------------------------------------------------------------ login
\* mutant: onSubmit has no isSubmitting guard
submitVerdict_noGuard ==
  IF ~SchemaValid(email, code) THEN "blocked" ELSE "issued"

\* handleSubmit(onSubmit) checks the schema and calls onSubmit on a valid form
\* only; onSubmit returns at once while isSubmitting
submitVerdict ==
  IF ~SchemaValid(email, code) THEN "blocked"
  ELSE IF isSubmitting THEN "suppressed"
  ELSE "issued"

\* onSubmit up to the await of authApi.emailCodeLogin
onSubmit ==
  /\ alive
  /\ loginInFlight < MaxInFlight
  /\ emailError' = ~EmailValid(email)
  /\ lastOp' = Op("submit", submitVerdict, 0)
  /\ UNCHANGED cbVars
  /\ IF submitVerdict = "issued"
     THEN /\ isSubmitting' = TRUE
          /\ loginInFlight' = loginInFlight + 1
     ELSE UNCHANGED <<isSubmitting, loginInFlight>>
  /\ UNCHANGED <<email, code, countdown, isSendingCode, timerRef, armed, alive,
                 sendCodeInFlight, profileInFlight, sessionSaved, navPending,
                 location, ticksSinceStart>>

\* mutant: any response with data counts as a login
loginSucceeds_anyData(r) == r.kind = "data"

\* if (error) return;  if (responseData && responseData.code === 201) ...
loginSucceeds(r) == r.kind = "data" /\ r.code = CREATED

\* onSubmit from the result of authApi.emailCodeLogin to the await of
\* authApi.getCurrentUser
loginResponse(r) ==
  /\ loginInFlight > 0
  /\ loginInFlight' = loginInFlight - 1
  /\ lastOp' = Op("loginResponse", r.kind, r.code)
  /\ UNCHANGED cbVars
  /\ IF loginSucceeds(r)
     THEN /\ profileInFlight < MaxInFlight
          /\ sessionSaved' = TRUE
          /\ profileInFlight' = profileInFlight + 1
          /\ UNCHANGED isSubmitting
     ELSE /\ isSubmitting' = IF r.kind = "throw" THEN isSubmitting
                             ELSE setFlag(isSubmitting, alive, FALSE)
          /\ UNCHANGED <<sessionSaved, profileInFlight>>
  /\ UNCHANGED <<email, code, emailError, countdown, isSendingCode, timerRef,
                 armed, alive, sendCodeInFlight, navPending, location,
                 ticksSinceStart>>

\* mutant: the profile fetch is not wrapped in try/catch
profileContinues_noCatch(outcome) == outcome \in ProfileOutcomes \ {"throw"}

\* try { await authApi.getCurrentUser(...) } catch { ... }: every outcome of
\* the profile fetch lets onSubmit run on
profileContinues(outcome) == outcome \in ProfileOutcomes

\* onSubmit from the result of authApi.getCurrentUser on
profileResponse(outcome) ==
  /\ profileInFlight > 0
  /\ profileInFlight' = profileInFlight - 1
  /\ lastOp' = Op("profileResponse", outcome, 0)
  /\ UNCHANGED cbVars
  /\ IF profileContinues(outcome)
     THEN /\ navPending < MaxNav
          /\ SetThrottle(clearTimer(Throttle))
          /\ navPending' = navPending + 1
          /\ isSubmitting' = setFlag(isSubmitting, alive, FALSE)
     ELSE UNCHANGED <<countdown, timerRef, armed, navPending, isSubmitting>>
  /\ UNCHANGED <<email, code, emailError, isSendingCode, alive, sendCodeInFlight,
                 loginInFlight, sessionSaved, location, ticksSinceStart>>

\* ------------------------------------------------------------ time
\* one second of the interval timers
Tick ==
  /\ armed # {}
  /\ SetThrottle(fireAll(armed, Throttle, alive))
  /\ ticksSinceStart' = Bump(ticksSinceStart)
  /\ lastOp' = Op("tick", "", 0)
  /\ UNCHANGED cbVars
  /\ UNCHANGED <<email, code, emailError, isSubmitting, isSendingCode, alive,
                 sendCodeInFlight, loginInFlight, profileInFlight, sessionSaved,
                 navPending, location>>

\* the cleanup of the unmount effect
unmountCleanup(t) == clearTimer(t)

\* the page is left: the component unmounts and its cleanup runs
Leave(target) ==
  /\ alive' = FALSE
  /\ location' = target
  /\ SetThrottle(IF alive THEN unmountCleanup(Throttle) ELSE Throttle)

\* setTimeout(() => router.push('/'), 1000) fires
navFire ==
  /\ navPending > 0
  /\ navPending' = navPending - 1
  /\ Leave("/")
  /\ lastOp' = Op("navFire", "", 0)
  /\ UNCHANGED cbVars
  /\ UNCHANGED <<email, code, emailError, isSubmitting, isSendingCode,
                 sendCodeInFlight, loginInFlight, profileInFlight, sessionSaved,
                 ticksSinceStart>>

\* the "back to login" link: router.push('/auth'), disabled while submitting
backToLogin ==
  /\ alive
  /\ ~isSubmitting
  /\ Leave("/auth")
  /\ lastOp' = Op("backToLogin", "", 0)
  /\ UNCHANGED cbVars
  /\ UNCHANGED <<email, code, emailError, isSubmitting, isSendingCode,
                 sendCodeInFlight, loginInFlight, profileInFlight, sessionSaved,
                 navPending, ticksSinceStart>>

\* ------------------------------------------------------------ Next
Next ==
  \/ \E e \in Emails : SetEmail(e)
  \/ \E raw \in RawInputs : handleCodeChange(raw)
  \/ handleSendCode
  \/ \E r \in ApiResults : sendCodeResponse(r)
  \/ onSubmit
  \/ \E r \in ApiResults : loginResponse(r)
  \/ \E o \in ProfileOutcomes : profileResponse(o)
  \/ Tick
  \/ navFire
  \/ backToLogin

Spec == Init /\ [][Next]_vars

\* ------------------------------------------------------------ the throttle alone
\* CodeRequestThrottle driven directly: start, tick and cancel in any order.
throttleStart ==
  /\ SetThrottle(startCountdown(Throttle, alive))
  /\ ticksSinceStart' = 0
  /\ lastOp' = Op("start", IF armed # {} THEN "restart" ELSE "first", 0)
  /\ UNCHANGED cbVars
  /\ UNCHANGED <<email, code, emailError, isSubmitting, isSendingCode, alive,
                 sendCodeInFlight, loginInFlight, profileInFlight, sessionSaved,
                 navPending, location>>

throttleCancel ==
  /\ SetThrottle(clearTimer(Throttle))
  /\ lastOp' = Op("cancel", "", 0)
  /\ UNCHANGED cbVars
  /\ UNCHANGED <<email, code, emailError, isSubmitting, isSendingCode, alive,
                 sendCodeInFlight, loginInFlight, profileInFlight, sessionSaved,
                 navPending, location, ticksSinceStart>>

NextThrottle == throttleStart \/ Tick \/ throttleCancel

SpecThrottle == Init /\ [][NextThrottle]_vars

\* ------------------------------------------------------------ the resolver alone
\* A callback URL with any redirect hints, a stash left by an earlier page
\* (none where sessionStorage cannot be accessed), the component mounted.
ResolveInit ==
  /\ EmailClosed
  /\ \E s \in ParamValues(MaxQueryLen) :
       \E r \in ParamValues(MaxQueryLen - Len(s.val)) :
         \E t \in ParamValues(MaxQueryLen - Len(s.val) - Len(r.val)) :
           searchParams =
             [NoHints EXCEPT !.state = s, !.redirect_to = r, !.returnTo = t]
  /\ storageOK \in BOOLEAN
  /\ stash \in (IF storageOK THEN StashValues ELSE {Absent})
  /\ cbMounted = TRUE
  /\ resolved = NoResult
  /\ resolveCalls = 0
  /\ stashBefore = Absent
  /\ stashReturns = 0
  /\ CallbackFlowIdle
  /\ lastOp = Op("init", "", 0)

\* observation: the call returned what the stash held
servedFromStash(sp, canRead, st, result) ==
  /\ ~(Truthy(sp.state) /\ decodeURIComponent(sp.state.val).ok)
  /\ ~Truthy(sp.redirect_to)
  /\ ~Truthy(sp.returnTo)
  /\ canRead
  /\ Truthy(st)
  /\ result = Returned(st.val, result.stash)

\* const redirectUrl = getRedirectUrl()
callGetRedirectUrl ==
  LET result == getRedirectUrl(searchParams, cbMounted, storageOK, stash)
  IN /\ resolved' = result
     /\ stash' = result.stash
     /\ stashBefore' = stash
     /\ resolveCalls' = resolveCalls + 1
     /\ stashReturns' =
          IF servedFromStash(searchParams, storageOK, stash, result)
          THEN stashReturns + 1
          ELSE stashReturns

\* handleAuthSuccess calls getRedirectUrl
resolve ==
  /\ cbMounted
  /\ resolveCalls < MaxResolveCalls
  /\ callGetRedirectUrl
  /\ lastOp' = Op("resolve", "", 0)
  /\ UNCHANGED <<searchParams, storageOK, cbMounted>>
  /\ UNCHANGED cbFlowVars
  /\ UNCHANGED emailVars

NextResolve == resolve

SpecResolve == ResolveInit /\ [][NextResolve]_vars

\* ------------------------------------------------------------ the callback page
\* query strings the callback page is opened with
Tokens == {Absent, Str(<<>>), Str(<<"t">>)}
Codes == {Absent, Str(<<"c">>)}
RefreshTokens == {Absent, Str(<<"r">>)}
Expiries == {Absent, Str(<<"3", "6">>), Str(<<"x">>)}
RefreshExpiries == {Absent, Str(<<"7", "2">>)}
RedirectHints ==
  { NoHints,
    [NoHints EXCEPT !.state = Str(<<"%", "2", "F", "2">>)],
    [NoHints EXCEPT !.redirect_to = Str(<<"%">>)],
    [NoHints EXCEPT !.returnTo = Str(<<"2">>)] }

CallbackUrls ==
  { [NoHints EXCEPT !.isNull = TRUE] }
  \cup { [h EXCEPT !.token = t, !.code = c] :
           h \in RedirectHints, t \in Tokens \ {Str(<<"t">>)}, c \in Codes }
  \cup { [h EXCEPT !.token = Str(<<"t">>), !.code = c, !.refresh_token = r,
                   !.expires_in = e, !.refresh_expires_in = x] :
           h \in RedirectHints, c \in Codes, r \in RefreshTokens,
           e \in Expiries, x \in RefreshExpiries }

\* The browser opens /auth/callback: the component is rendered, no effect has
\* run yet.
CallbackInit ==
  /\ EmailClosed
  /\ searchParams \in CallbackUrls
  /\ storageOK \in BOOLEAN
  /\ stash \in (IF storageOK THEN {Absent, Str(<<"/", "s">>)} ELSE {Absent})
  /\ cbMounted = FALSE
  /\ resolved = NoResult
  /\ resolveCalls = 0
  /\ stashBefore = Absent
  /\ stashReturns = 0
  /\ cbPc = "unmounted"
  /\ CallbackFlowInit
  /\ lastOp = Op("init", "", 0)

\* useEffect(() => setMounted(true), [])
cbMountEffect ==
  /\ cbPc = "unmounted"
  /\ cbMounted' = TRUE
  /\ cbPc' = "mounted"
  /\ lastOp' = Op("mount", "", 0)
  /\ UNCHANGED <<searchParams, storageOK, stash, resolved, resolveCalls,
                 stashBefore, stashReturns>>
  /\ UNCHANGED <<cbState, cbStatus, cbSaved, exchangeCalls, cbNav, classified, retries>>
  /\ UNCHANGED emailVars

\* handleAuthSuccess up to its await of getCurrentUser
beginAuthSuccess(authData) ==
  /\ cbSaved' = saveAuthData(authData)
  /\ cbStatus' = "fetchingProfile"
  /\ cbState' = "success"
  /\ cbPc' = "profile"

\* shows an error and returns
showError(message) ==
  /\ cbStatus' = message
  /\ cbState' = "error"
  /\ cbPc' = "done"
  /\ UNCHANGED cbSaved

\* mutant: the token is used only where there is no code
tokenPath_codeFirst(sp) == Truthy(sp.token) /\ ~Truthy(sp.code)

\* if (token)
tokenPath(sp) == Truthy(sp.token)

\* processAuth, run by the effect once mounted is true, up to its first await
processAuth ==
  /\ cbPc = "mounted"
  /\ cbMounted
  /\ IF searchParams.isNull
     THEN /\ showError("noParams")
          /\ lastOp' = Op("processAuth", "noParams", 0)
          /\ UNCHANGED exchangeCalls
     ELSE IF tokenPath(searchParams)
     THEN /\ beginAuthSuccess(authDataFromParams(searchParams))
          /\ lastOp' = Op("processAuth", "token", 0)
          /\ UNCHANGED exchangeCalls
     ELSE IF ~Truthy(searchParams.code)
     THEN /\ showError("missingCredentials")
          /\ lastOp' = Op("processAuth", "missingCredentials", 0)
          /\ UNCHANGED exchangeCalls
     ELSE /\ cbStatus' = "contacting"
          /\ exchangeCalls' = exchangeCalls + 1
          /\ cbPc' = "exchange"
          /\ lastOp' = Op("processAuth", "code", 0)
          /\ UNCHANGED <<cbState, cbSaved>>
  /\ UNCHANGED <<searchParams, storageOK, stash, cbMounted, resolved, resolveCalls,
                 stashBefore, stashReturns>>
  /\ UNCHANGED <<cbNav, classified, retries>>
  /\ UNCHANGED emailVars

\* the continuation of `await authApi.githubCallback(code, {onError})`
exchangeResponse(r) ==
  /\ cbPc = "exchange"
  /\ lastOp' = Op("exchangeResponse", r.kind, IF r.kind = "data" THEN r.code ELSE r.http)
  /\ IF r.kind = "throw"
     THEN LET out == processAuthCatch(r.failure, [state |-> cbState, status |-> cbStatus])
          IN /\ cbState' = out.state
             /\ cbStatus' = out.status
             /\ cbPc' = "done"
             /\ classified' = Classified("catch", r.failure, classifyCatch(r.failure))
             /\ UNCHANGED cbSaved
     ELSE IF r.kind = "error"
     THEN /\ showError("loginFailed")
          /\ classified' =
               IF r.failure = NoFailure THEN classified
               ELSE Classified("onError", r.failure, classifyOnError(r.failure, cbStatus))
     ELSE IF r.kind = "data" /\ r.code = OK
     THEN /\ beginAuthSuccess(ServerAuthData)
          /\ UNCHANGED classified
     ELSE /\ showError("loginFailed")
          /\ UNCHANGED classified
  /\ UNCHANGED <<searchParams, storageOK, stash, cbMounted, resolved, resolveCalls,
                 stashBefore, stashReturns>>
  /\ UNCHANGED <<exchangeCalls, cbNav, retries>>
  /\ UNCHANGED emailVars

\* what getCurrentUser's handlers and the code after it leave on the screen
afterProfile(outcome, shown) ==
  IF outcome = "data" THEN [state |-> shown.state, status |-> "redirecting"]
  ELSE IF outcome \in {"onError", "throw"}
  THEN [state |-> shown.state, status |-> "profileFailed"]
  ELSE IF outcome = "unauthorized" THEN [state |-> "error", status |-> "userAuthFailed"]
  ELSE shown

\* the continuation of handleAuthSuccess's `await authApi.getCurrentUser`, to
\* the end of processAuth
cbProfileResponse(outcome) ==
  /\ cbPc = "profile"
  /\ lastOp' = Op("cbProfileResponse", outcome, 0)
  /\ callGetRedirectUrl
  /\ LET shown == afterProfile(outcome, [state |-> cbState, status |-> cbStatus])
         result == getRedirectUrl(searchParams, cbMounted, storageOK, stash)
     IN IF result.kind = "url"
        THEN /\ cbState' = shown.state
             /\ cbStatus' = shown.status
             /\ cbNav' = Scheduled(result.url)
             /\ UNCHANGED classified
        ELSE LET out == processAuthCatch(URIError, shown)
             IN /\ cbState' = out.state
                /\ cbStatus' = out.status
                /\ classified' = Classified("catch", URIError, classifyCatch(URIError))
                /\ UNCHANGED cbNav
  /\ cbPc' = "done"
  /\ UNCHANGED <<searchParams, storageOK, cbMounted>>
  /\ UNCHANGED <<cbSaved, exchangeCalls, retries>>
  /\ UNCHANGED emailVars

\* setTimeout(() => router.push(redirectUrl), 1000) fires
cbNavFire ==
  /\ cbNav.state = "pending"
  /\ cbNav' = Navigated(cbNav.target)
  /\ cbPc' = "left"
  /\ lastOp' = Op("cbNavFire", "", 0)
  /\ UNCHANGED <<searchParams, storageOK, stash, cbMounted, resolved, resolveCalls,
                 stashBefore, stashReturns>>
  /\ UNCHANGED <<cbState, cbStatus, cbSaved, exchangeCalls, classified, retries>>
  /\ UNCHANGED emailVars

\* the retry button of the error view: window.location.reload() opens the
\* same URL anew; sessionStorage outlives the reload, timers do not
retry ==
  /\ cbPc = "done"
  /\ cbState = "error"
  /\ retries < MaxRetries
  /\ retries' = retries + 1
  /\ cbMounted' = FALSE
  /\ cbPc' = "unmounted"
  /\ cbState' = "loading"
  /\ cbStatus' = "processing"
  /\ cbSaved' = NoSession
  /\ cbNav' = NoNav
  /\ classified' = NoClassified
  /\ resolved' = NoResult
  /\ resolveCalls' = 0
  /\ stashBefore' = Absent
  /\ lastOp' = Op("retry", "", 0)
  /\ UNCHANGED <<searchParams, storageOK, stash, stashReturns, exchangeCalls>>
  /\ UNCHANGED emailVars

\* the back-to-login button of the error view: router.push('/auth')
returnToAuth ==
  /\ cbPc = "done"
  /\ cbState = "error"
  /\ cbPc' = "left"
  /\ lastOp' = Op("returnToAuth", "", 0)
  /\ UNCHANGED <<searchParams, storageOK, stash, cbMounted, resolved, resolveCalls,
                 stashBefore, stashReturns>>
  /\ UNCHANGED <<cbState, cbStatus, cbSaved, exchangeCalls, cbNav, classified, retries>>
  /\ UNCHANGED emailVars

NextCallback ==
  \/ cbMountEffect
  \/ processAuth
  \/ \E r \in ExchangeResults : exchangeResponse(r)
  \/ \E o \in ProfileOutcomes : cbProfileResponse(o)
  \/ cbNavFire
  \/ retry
  \/ returnToAuth

SpecCallback == CallbackInit /\ [][NextCallback]_vars

\* Scheduling: React runs the mount effect and the effect that depends on
\* `mounted` after the renders that queue them, and an AuthAPI call that
\* returns or raises resumes the awaiting function.
SpecCallbackFair ==
  /\ SpecCallback
  /\ WF_vars(cbMountEffect)
  /\ WF_vars(processAuth)
  /\ WF_vars(\E r \in ExchangeResults : exchangeResponse(r))
  /\ WF_vars(\E o \in ProfileOutcomes : cbProfileResponse(o))

\* ------------------------------------------------------------ both pages
\* The browser opens the e-mail page or the callback page.
InitFlows == Init \/ CallbackInit

NextFlows == Next \/ NextCallback

SpecFlows == InitFlows /\ [][NextFlows]_vars

\* ------------------------------------------------------------ claims
Confirmed(op) == lastOp.op = op /\ lastOp.arg = "data" /\ lastOp.code = CREATED

\* C1: in a mounted flow, right after a sendEmailCode call returned the
\* server's confirmation the countdown is above 0 (canRequest() is false), and
\* whenever the countdown is back at 0 after a start, at least
\* COUNTDOWN_SECONDS timer seconds have elapsed since the latest start.
C1_CooldownAfterSend ==
  alive =>
    /\ Confirmed("sendCodeResponse") => countdown > 0
    /\ (ticksSinceStart # NeverStarted /\ countdown = 0)
         => ticksSinceStart >= COUNTDOWN_SECONDS

C1_Witness ==
  /\ alive
  /\ lastOp.op = "tick"
  /\ countdown = 0
  /\ ticksSinceStart = COUNTDOWN_SECONDS

\* C2: under any sequence of start, tick and cancel, at most one interval
\* timer is armed; a start leaves exactly one armed; a second of ticking takes
\* exactly 1 off a positive countdown; no timer is armed at countdown 0.
C2_SingleTimer ==
  [][ /\ Cardinality(armed') <= 1
      /\ countdown' = 0 => armed' = {}
      /\ lastOp'.op = "start" => Cardinality(armed') = 1 /\ countdown' = COUNTDOWN_SECONDS
      /\ (lastOp'.op = "tick" /\ countdown > 0) => countdown' = countdown - 1
    ]_vars

C2_Witness ==
  /\ lastOp = Op("start", "restart", 0)
  /\ Cardinality(armed) = 1
  /\ countdown = COUNTDOWN_SECONDS

\* C3: sendEmailCode is issued only at countdown 0; the send button is
\* disabled while the countdown runs; a handleSendCode call made while the
\* countdown is above 0 issues nothing and changes no state.
C3_NoSendDuringCooldown ==
  [][ /\ sendCodeInFlight' > sendCodeInFlight => countdown = 0 /\ countdown' = 0
      /\ countdown > 0 => isSendCodeDisabled
      /\ (lastOp'.op = "sendCode" /\ countdown > 0)
           => lastOp'.arg # "issued" /\ UNCHANGED emailVars
    ]_vars

C3_Witness ==
  /\ lastOp = Op("sendCode", "suppressed", 0)
  /\ countdown > 0
  /\ ~isSendingCode
  /\ sendCodeInFlight = 0

\* C4: never two sendEmailCode calls in flight, never two emailCodeLogin
\* calls in flight; a trigger that finds one in flight issues none.
C4_OneInFlight ==
  /\ sendCodeInFlight <= 1
  /\ loginInFlight <= 1
  /\ (lastOp.op = "sendCode" /\ lastOp.arg = "suppressed" /\ countdown = 0)
       => isSendingCode
  /\ (lastOp.op = "submit" /\ lastOp.arg = "suppressed") => isSubmitting

C4_Witness ==
  /\ lastOp = Op("submit", "suppressed", 0)
  /\ loginInFlight = 1

EmailWellFormed == email.len >= 1 /\ email.len <= MAX_EMAIL_LENGTH /\ email.pattern
AsciiDigits == {"0", "1", "2", "3", "4", "5", "6", "7", "8", "9"}
CodeWellFormed == Len(code) = CODE_LENGTH /\ \A i \in 1..Len(code) : code[i] \in AsciiDigits

\* C5: sendEmailCode is issued only for an e-mail that is well formed and at
\* most MAX_EMAIL_LENGTH long; emailCodeLogin only for such an e-mail and a
\* code of exactly CODE_LENGTH digits; a submit with a malformed code issues
\* no call at all.
C5_ValidationBeforeNetwork ==
  [][ /\ sendCodeInFlight' > sendCodeInFlight => EmailWellFormed
      /\ loginInFlight' > loginInFlight => EmailWellFormed /\ CodeWellFormed
      /\ (lastOp'.op = "submit" /\ ~CodeWellFormed)
           => UNCHANGED <<sendCodeInFlight, loginInFlight, profileInFlight>>
    ]_vars

C5_Witness ==
  /\ lastOp = Op("submit", "blocked", 0)
  /\ EmailWellFormed
  /\ Len(code) = CODE_LENGTH - 1
  /\ loginInFlight = 0

\* C6: when sendEmailCode ends in an exception, an error result or any
\* response other than the confirmation, the countdown and the timers are
\* what they were before.
C6_FailureLeavesThrottle ==
  [][ (lastOp'.op = "sendCodeResponse" /\ ~Confirmed("sendCodeResponse")')
        => UNCHANGED <<countdown, timerRef, armed>>
    ]_vars

C6_Witness ==
  /\ lastOp = Op("sendCodeResponse", "data", OK)
  /\ countdown = 0
  /\ armed = {}

\* C7: once emailCodeLogin returned the server's confirmation the session is
\* saved, and when the profile fetch has ended, in whichever way, the session
\* is still saved and the navigation to "/" is pending.
C7_LoginSurvivesProfileFetch ==
  /\ Confirmed("loginResponse") => sessionSaved
  /\ lastOp.op = "profileResponse" => sessionSaved /\ navPending >= 1
  /\ lastOp.op = "navFire" => sessionSaved /\ location = "/"

C7_Witness ==
  /\ lastOp = Op("profileResponse", "throw", 0)
  /\ sessionSaved
  /\ navPending = 1

\* C8: when emailCodeLogin ends in an exception, an error result or any
\* response other than the confirmation, that step saves no session, issues
\* no profile fetch and schedules no navigation.
C8_FailedLoginDoesNothing ==
  [][ (lastOp'.op = "loginResponse" /\ ~Confirmed("loginResponse")')
        => UNCHANGED <<sessionSaved, profileInFlight, navPending, location>>
    ]_vars

C8_Witness ==
  /\ lastOp = Op("loginResponse", "error", 0)
  /\ ~sessionSaved
  /\ profileInFlight = 0
  /\ navPending = 0

\* a source that carries a value
Src(p) == p.present /\ p.val # <<>>
Dec(p) == decodeURIComponent(p.val)
StateWins == Src(searchParams.state) /\ Dec(searchParams.state).ok

\* C9: getRedirectUrl returns the first source that is there, in the order
\* state (decoded), redirect_to (decoded), returnTo (decoded), the stashed
\* value, "/": checked for every combination of sources in which the source
\* that comes first can be decoded.
C9_ResolutionOrder ==
  resolveCalls > 0 =>
    LET sp == searchParams
    IN /\ StateWins => resolved = Returned(Dec(sp.state).out, stashBefore)
       /\ (~StateWins /\ Src(sp.redirect_to) /\ Dec(sp.redirect_to).ok)
            => resolved.kind = "url" /\ resolved.url = Dec(sp.redirect_to).out
       /\ (~StateWins /\ ~Src(sp.redirect_to) /\ Src(sp.returnTo) /\ Dec(sp.returnTo).ok)
            => resolved.kind = "url" /\ resolved.url = Dec(sp.returnTo).out
       /\ (~StateWins /\ ~Src(sp.redirect_to) /\ ~Src(sp.returnTo) /\ Src(stashBefore))
            => resolved.kind = "url" /\ resolved.url = stashBefore.val
       /\ (~StateWins /\ ~Src(sp.redirect_to) /\ ~Src(sp.returnTo) /\ ~Src(stashBefore))
            => resolved.kind = "url" /\ resolved.url = Root
       /\ sp.state = Str(<<"%", "2", "F", "2">>) => resolved.url = <<"/", "2">>
       /\ (~sp.state.present /\ sp.redirect_to = Str(<<"%", "2", "F", "F">>))
            => resolved.url = <<"/", "F">>

C9_Witness ==
  /\ resolveCalls = 1
  /\ ~searchParams.state.present
  /\ searchParams.redirect_to = Str(<<"%", "2", "F">>)
  /\ searchParams.returnTo = Str(<<"2">>)
  /\ Src(stashBefore)
  /\ resolved = Returned(<<"/">>, stashBefore)

\* C10: getRedirectUrl never fails: whatever the sources hold, also values
\* that cannot be percent-decoded, every call returns a path.
C10_ResolveNeverFails ==
  resolveCalls > 0 => resolved.kind = "url"

\* no query parameter gives the target
StashDecides ==
  ~StateWins /\ ~Src(searchParams.redirect_to) /\ ~Src(searchParams.returnTo)

\* C11: the stash is single-use: a getRedirectUrl call that returns the
\* stashed value leaves the stash empty, no stashed value is returned by two
\* calls, and a second call on a URL without any redirect parameter returns
\* "/".
C11_StashSingleUse ==
  /\ stashReturns <= 1
  /\ (resolveCalls > 0 /\ StashDecides /\ Src(stashBefore))
       => resolved = Returned(stashBefore.val, Absent) /\ stash = Absent
  /\ (resolveCalls = 2 /\ StashDecides) => resolved.url = Root

C11_Witness ==
  /\ resolveCalls = 2
  /\ StashDecides
  /\ stashReturns = 1
  /\ stash = Absent
  /\ resolved = Returned(Root, Absent)

\* the callback URL carries a token
TokenGiven == ~searchParams.isNull /\ Src(searchParams.token)
\* processAuth has passed its parameter checks in this run
Started == cbPc \in {"exchange", "profile", "done", "left"}

\* C12: on a callback URL with a token, with or without a code, processAuth
\* never calls githubCallback, shows success once it has read the parameters,
\* and has passed to saveAuthData the token, the refresh_token if there is
\* one, and expires_in and refresh_expires_in as numbers if they are there.
C12_TokenSkipsExchange ==
  TokenGiven =>
    /\ exchangeCalls = 0
    /\ cbPc # "exchange"
    /\ cbPc = "profile" => cbState = "success"
    /\ Started =>
         LET sp == searchParams
             d == cbSaved.data
         IN /\ cbSaved.saved
            /\ d.token = sp.token
            /\ d.refresh_token = (IF Src(sp.refresh_token) THEN sp.refresh_token ELSE Absent)
            /\ sp.expires_in = Str(<<"3", "6">>) => d.expires_in = Num(36)
            /\ ~Src(sp.expires_in) => d.expires_in = Undefined
            /\ sp.refresh_expires_in = Str(<<"7", "2">>) => d.refresh_expires_in = Num(72)
            /\ ~Src(sp.refresh_expires_in) => d.refresh_expires_in = Undefined

C12_Witness ==
  /\ TokenGiven
  /\ Src(searchParams.code)
  /\ cbPc = "profile"
  /\ cbState = "success"
  /\ exchangeCalls = 0
  /\ cbSaved = saveAuthData(AuthData(Str(<<"t">>), Str(<<"r">>), Num(36), Undefined))

\* the callback URL carries a code and no token
CodeOnly ==
  ~searchParams.isNull /\ ~Src(searchParams.token) /\ Src(searchParams.code)

\* C13: on a callback URL with a code and no token, a githubCallback call
\* that fails with status 401 ends in the error view with the failure
\* classified as unauthorized; the retry button shows loading again, and the
\* run it starts calls githubCallback once.
C13_UnauthorizedThenRetry ==
  /\ (CodeOnly /\ lastOp.op = "exchangeResponse" /\ lastOp.code = 401)
       => cbState = "error" /\ cbStatus = "unauthorized"
  /\ lastOp.op = "retry" => cbState = "loading"
  /\ (CodeOnly /\ cbPc = "exchange") => exchangeCalls = retries + 1

\* the part of C13 the page does: error view, loading on retry, one call a run
C13_RetryReissuesOnce ==
  /\ (CodeOnly /\ lastOp.op = "exchangeResponse" /\ lastOp.code = 401)
       => cbState = "error" /\ cbStatus = "loginFailed"
  /\ lastOp.op = "retry" => cbState = "loading"
  /\ (CodeOnly /\ cbPc = "exchange") => exchangeCalls = retries + 1

\* C14: once the session is saved and the success view shown, no later step
\* of the run shows the error view, whatever getCurrentUser and getRedirectUrl
\* end in, and the run schedules the navigation to the resolved target.
C14_SuccessIsTerminal ==
  [][ (cbSaved.saved /\ cbState = "success")
        => /\ cbState' # "error"
           /\ cbPc' = "done" =>
                cbNav'.state = "pending" /\ cbNav'.target = resolved'.url
    ]_vars

\* what remains of C14: the session stays saved and, where the redirect
\* parameters can be decoded, the navigation is scheduled
C14_SavedAndScheduled ==
  [][ (cbSaved.saved /\ cbState = "success" /\ cbPc' = "done")
        => /\ cbSaved' = cbSaved
           /\ resolved'.kind = "url" =>
                cbNav'.state = "pending" /\ cbNav'.target = resolved'.url
    ]_vars

\* C15: the callback page does not stay in the loading view: once the
\* effects run and every AuthAPI call returns or raises, each run shows
\* success or error; an exception that reaches the catch of processAuth -
\* raised by githubCallback or while the success is handled - ends the run in
\* the error view.
C15_NeverStuckLoading ==
  /\ [](cbState = "loading" => <>(cbState \in {"success", "error"}))
  /\ [](classified.path = "catch" => cbState = "error" /\ cbPc \in {"done", "left"})

C15_Witness ==
  /\ lastOp = Op("exchangeResponse", "throw", 0)
  /\ classified.path = "catch"
  /\ retries = 1
  /\ cbState = "error"

\* C16: once the e-mail page is unmounted no interval timer is armed, and a
\* sendEmailCode or emailCodeLogin continuation that runs afterwards starts no
\* countdown, sets no flag and schedules no navigation.
C16_NothingAfterTeardown ==
  [][ /\ ~alive' => armed' = {}
      /\ ~alive =>
           /\ timerRef' = timerRef
           /\ countdown' = countdown
           /\ isSendingCode' = isSendingCode
           /\ isSubmitting' = isSubmitting
           /\ navPending' <= navPending
    ]_vars

\* C17: on the mounted e-mail page every failed sendEmailCode or
\* emailCodeLogin call - an error result, a response that is not the success
\* code, an exception - leaves isSendingCode / isSubmitting false, and neither
\* flag is set while no request of its kind is outstanding.
C17_FailureClearsFlag ==
  alive =>
    /\ (lastOp.op = "sendCodeResponse" /\ ~Confirmed("sendCodeResponse"))
         => ~isSendingCode
    /\ (lastOp.op = "loginResponse" /\ ~Confirmed("loginResponse"))
         => ~isSubmitting
    /\ isSendingCode => sendCodeInFlight > 0
    /\ isSubmitting => loginInFlight + profileInFlight > 0

\* what remains of C17: a call that returns a result, of whatever kind,
\* leaves its flag false when it fails
C17_ReturnedFailureClearsFlag ==
  alive =>
    /\ (lastOp.op = "sendCodeResponse" /\ lastOp.arg # "throw"
          /\ ~Confirmed("sendCodeResponse"))
         => ~isSendingCode
    /\ (lastOp.op = "loginResponse" /\ lastOp.arg # "throw"
          /\ ~Confirmed("loginResponse"))
         => ~isSubmitting

HasTimeout(e) == e.isError /\ e.markers \cap {"timeout", "timeout_zh"} # {}
HasNetwork(e) ==
  e.isError /\ e.markers \cap {"Network", "FailedToFetch", "network_zh"} # {}

\* C18: whichever handler classifies a failure - the onError handler of
\* githubCallback or the catch of processAuth - a message that contains a
\* timeout text is classified as timeout, also when it contains a network
\* text as well, and a message with only a network text as network.
C18_TimeoutBeforeNetwork ==
  classified.path # "none" =>
    /\ HasTimeout(classified.failure) => classified.category = "timeout"
    /\ (~HasTimeout(classified.failure) /\ HasNetwork(classified.failure))
         => classified.category = "network"

\* what remains of C18: the onError handler tests the timeout texts first
C18_HandlerTimeoutFirst ==
  (classified.path = "onError" /\ HasTimeout(classified.failure))
    => classified.category = "timeout"

\* C19: in both flows the navigation to the post-login target is scheduled
\* only by a run that has called saveAuthData before; on the callback page
\* getRedirectUrl is called after saveAuthData, in the step that then
\* schedules the navigation to the target it returned; no navigation fires
\* without a saved session.
C19_SaveBeforeNavigate ==
  [][ /\ profileInFlight' > profileInFlight => sessionSaved'
      /\ navPending' > navPending
           => sessionSaved /\ profileInFlight' < profileInFlight
      /\ (location' = "/" /\ location # "/") => sessionSaved
      /\ resolveCalls' > resolveCalls => cbSaved.saved /\ cbSaved' = cbSaved
      /\ (cbNav'.state = "pending" /\ cbNav.state = "none")
           => /\ cbSaved.saved
              /\ resolveCalls' > resolveCalls
              /\ resolved'.kind = "url"
              /\ cbNav'.target = resolved'.url
      /\ cbNav'.state = "done" => cbSaved.saved /\ cbNav'.target = resolved.url
    ]_vars

C19_Witness ==
  /\ cbNav = Navigated(<<"/", "2">>)
  /\ cbSaved = saveAuthData(ServerAuthData)
  /\ resolved.url = <<"/", "2">>
  /\ exchangeCalls = 1

\* C20: on the mounted e-mail page a countdown above 0 always has its
\* interval timer armed, also after a successful login has called clearTimer
\* while the countdown was running.
C20_CooldownNeverFreezes ==
  (alive /\ countdown > 0) => timerRef \in armed

\* what remains of C20: the countdown runs as long as no login has succeeded
C20_CooldownRunsBeforeLogin ==
  (alive /\ countdown > 0 /\ ~sessionSaved) => timerRef \in armed

\* C21: a getRedirectUrl call in which a query parameter decides - `state`
\* decodes, or redirect_to or returnTo holds a value - leaves the stash as it
\* found it and returns nothing of it, so what was stashed before the
\* callback is still there for the next call; that holds also where the
\* parameter's value cannot be decoded.
C21_StashKeptWhenParamWins ==
  (resolveCalls > 0 /\ ~StashDecides) =>
    /\ stash = stashBefore
    /\ resolved.stash = stashBefore
    /\ stashReturns = 0
    /\ StateWins => resolved.url = Dec(searchParams.state).out

C21_Witness ==
  /\ resolveCalls = 2
  /\ ~StateWins
  /\ searchParams.returnTo = Str(<<"2">>)
  /\ resolved.url = <<"2">>
  /\ stashBefore = Str(<<"/", "s">>)
  /\ stash = Str(<<"/", "s">>)

=============================================================================
